---- MODULE Spec2Model ----
(***************************************************************************)
(* A state-machine model of src/shared-ptr.h: the control block with its   *)
(* two counters, shared_ptr and weak_ptr handles, and make_shared.         *)
(*                                                                         *)
(* A client program is a sequence of handle operations on a bounded number *)
(* of handle variables (slots).  Every operation is one action; its effect *)
(* is computed by a state transformer that follows the source statement by *)
(* statement.                                                              *)
(*                                                                         *)
(* Two sources of undefined behaviour of the source are modelled:          *)
(*  - reset() and both assignment operators run this->~shared_ptr() (or    *)
(*    ~weak_ptr()) on an object that is used afterwards.  The destructor's *)
(*    last two stores (the nulling of the two fields) are stores to an     *)
(*    object whose lifetime has ended; an optimising build drops them      *)
(*    (g++ -O1/-O2 does), a non-optimising build keeps them.  Which of    *)
(*    the two the build does is the variable dse, chosen in Init.          *)
(*  - any access to a control block that has been freed, and any second    *)
(*    destruction of an object in embedded storage, sets ub: from there    *)
(*    the program has no defined behaviour and the model stops.            *)
(*                                                                         *)
(* Three specifications share the definitions.  Spec is the client whose   *)
(* allocations, constructors and deleters succeed and whose handles are    *)
(* variables of its own.  SpecFail adds the failures: an allocation or a   *)
(* constructor that throws, a deleter that throws.  SpecEmbedded adds      *)
(* handles that are members of managed objects, destroyed by the object's  *)
(* destructor.                                                             *)
(***************************************************************************)
EXTENDS Integers, FiniteSets, Sequences, TLC

\* Number of shared_ptr variables the client program may declare.
NumShared == 3
\* Number of weak_ptr variables the client program may declare.
NumWeak == 2
\* Number of handle variables, shared and weak together, the client declares.
MaxHandles == 3
\* Number of control blocks the client program allocates over a run.
MaxCB == 2
\* Width of size_t in the model.  The build has 64; no run within the bounds
\* counts 2^SizeTBits handles, so the wrap-around behaviour is the same.
SizeTBits == 8

SizeTMod == 2 ^ SizeTBits
\* The observation counters (destructor runs, releases) saturate here: "more
\* than once" is all that is observed of them.
MaxObserved == 2

\* nullptr
Null == 0

SH == 1 .. NumShared
WH == 1 .. NumWeak
CB == 1 .. MaxCB

\* Object k is the object handed to (or constructed inside) control block k.
\* AliasTarget is the "unrelated pointer" of the aliasing constructor.
AliasTarget == MaxCB + 1
Ptr == 0 .. AliasTarget
\* What a non-null pointer may point to.
Obj == 1 .. AliasTarget

VARIABLES
    sp,     \* sp[h]: shared_ptr variable h: alive, object_ptr, control_block_ptr
    wp,     \* wp[w]: weak_ptr variable w: alive, control_block_ptr, object_ptr
    cb,     \* cb[k]: control block k
    obj,    \* obj[o]: object o; object k <= MaxCB is the managed object of block k
    ub,     \* undefined behaviour has been executed
    dse,    \* the build drops the dead stores of an explicitly called destructor
    nsp,    \* the number of shared_ptr variables declared so far
    nwp,    \* the number of weak_ptr variables declared so far
    within, \* within.sp[h], within.wp[w]: the object the handle is a member of, or Null
    exc,    \* how the last operation ended: "none", "thrown" (an exception reached
            \* the caller) or "terminate" (std::terminate was called)
    last    \* the operation executed by the last step

vars == <<sp, wp, cb, obj, ub, dse, nsp, nwp, within, exc, last>>

\* A handle variable that does not exist (not yet constructed, or out of scope).
\* The field owns is history, not program state: the handle has taken a share of
\* the block it points to (by add_shared/add_weak, by creating the block, or by
\* a move into it) and has not given it back or passed it on since.
NoHandle ==
    [alive |-> FALSE, object_ptr |-> Null, control_block_ptr |-> Null, owns |-> FALSE]

\* A default-constructed handle: both fields nullptr.
EmptyHandle ==
    [alive |-> TRUE, object_ptr |-> Null, control_block_ptr |-> Null, owns |-> FALSE]

\* A handle variable pointing to object p and block k.
Handle(p, k) ==
    [alive |-> TRUE, object_ptr |-> p, control_block_ptr |-> k, owns |-> k # Null]

\* A control block that has not been allocated yet.
NoBlock ==
    [st |-> "none", kind |-> "none", weak_ptr_cnt |-> 0, shared_ptr_cnt |-> 0,
     object_ptr |-> Null, destroys |-> 0]

\* An object that has not been created yet.
NoObject == [created |-> FALSE, dtors |-> 0, deallocs |-> 0]

\* The program state as one record, the argument of the state transformers.
\* An operation starts with no exception in flight.
Cur == [sp |-> sp, wp |-> wp, cb |-> cb, obj |-> obj, ub |-> ub, within |-> within,
        exc |-> "none"]

\* Executing undefined behaviour.
UB(s) == [s EXCEPT !.ub = TRUE]

\* A throw-expression: an exception is in flight.
Throw(s) == [s EXCEPT !.exc = "thrown"]

\* An exception leaves a function that is noexcept: std::terminate.
Terminate(s) == [s EXCEPT !.exc = "terminate"]

\* The operation does not go on: undefined behaviour, or an exception in flight.
Stopped(s) == s.ub \/ s.exc # "none"

\* Sequencing: F applied to the state x, x being computed once.
Bind(x, F(_)) == CHOOSE r \in {F(v) : v \in {x}} : TRUE

\* size_t arithmetic.
Inc(n) == (n + 1) % SizeTMod
Dec(n) == (n + SizeTMod - 1) % SizeTMod

\* One more event on an observation counter.
Seen(n) == IF n < MaxObserved THEN n + 1 ELSE n

\* A pointer to block k may be dereferenced.
Live(s, k) == k \in CB /\ s.cb[k].st = "live"

(***************************************************************************)
(* ControlBlock                                                            *)
(***************************************************************************)

\* ControlBlock::add_shared
add_shared(s, k) ==
    [s EXCEPT !.cb[k].weak_ptr_cnt = Inc(@), !.cb[k].shared_ptr_cnt = Inc(@)]

\* ControlBlock::remove_shared
remove_shared(s, k) ==
    [s EXCEPT !.cb[k].weak_ptr_cnt = Dec(@), !.cb[k].shared_ptr_cnt = Dec(@)]

\* ControlBlock::add_weak
add_weak(s, k) == [s EXCEPT !.cb[k].weak_ptr_cnt = Inc(@)]

\* ControlBlock::remove_weak
remove_weak(s, k) == [s EXCEPT !.cb[k].weak_ptr_cnt = Dec(@)]

\* new ControlBlockWithPointer{ptr_, deleter}: counters (1, 1), the pointer stored.
\* The pointee of block k is object k.
NewControlBlockWithPointer(s, k) ==
    [s EXCEPT !.cb[k] = [st |-> "live", kind |-> "pointer", weak_ptr_cnt |-> 1,
                         shared_ptr_cnt |-> 1, object_ptr |-> k,
                         destroys |-> 0],
              !.obj[k] = [created |-> TRUE, dtors |-> 0, deallocs |-> 0]]

\* new ControlBlockWithPointer{ptr_, deleter} with a deleter that throws when it
\* is called: another instance of the class template.
NewControlBlockWithThrowingDeleter(s, k) ==
    [NewControlBlockWithPointer(s, k) EXCEPT !.cb[k].kind = "throwing"]

\* new ControlBlockWithValue<T>(args...) when the constructor of T throws, the
\* allocation not being released.
NewControlBlockWithValueLeaks(s, k) ==
    Throw([s EXCEPT !.cb[k] = [st |-> "live", kind |-> "value", weak_ptr_cnt |-> 1,
                               shared_ptr_cnt |-> 1, object_ptr |-> Null,
                               destroys |-> 0]])

\* new ControlBlockWithValue<T>(args...) when the constructor of T throws: the
\* exception leaves the constructor of the block, the new-expression releases
\* the allocation it made, no object exists.
NewControlBlockWithValueThrows(s, k) ==
    Throw([s EXCEPT !.cb[k] = [st |-> "freed", kind |-> "value", weak_ptr_cnt |-> 1,
                               shared_ptr_cnt |-> 1, object_ptr |-> Null,
                               destroys |-> 0]])

\* new ControlBlockWithValue<T>(args...): counters (1, 1), the object constructed
\* in object_storage, which is part of the block: one allocation.
NewControlBlockWithValue(s, k) ==
    [s EXCEPT !.cb[k] = [st |-> "live", kind |-> "value", weak_ptr_cnt |-> 1,
                         shared_ptr_cnt |-> 1, object_ptr |-> Null,
                         destroys |-> 0],
              !.obj[k] = [created |-> TRUE, dtors |-> 0, deallocs |-> 0]]

\* Destroying an object destroys the handles that are its members, and so may
\* destroy further objects.
RECURSIVE SharedDtor(_, _)
RECURSIVE WeakDtor(_, _)
RECURSIVE DestroyMembers(_, _)

\* The destructor of object o: its member handles are destroyed, the one
\* declared last first.
DestroyMembers(s, o) ==
    LET hs == {h \in SH : s.within.sp[h] = o}
        ws == {w \in WH : s.within.wp[w] = o}
    IN  IF hs # {}
        THEN LET h == CHOOSE x \in hs : \A y \in hs : y <= x IN
             Bind(SharedDtor(s, h), LAMBDA s1 :
                IF Stopped(s1) THEN s1
                ELSE DestroyMembers([s1 EXCEPT !.sp[h] = NoHandle, !.within.sp[h] = Null], o))
        ELSE IF ws # {}
        THEN LET w == CHOOSE x \in ws : \A y \in ws : y <= x IN
             Bind(WeakDtor(s, w), LAMBDA s1 :
                IF Stopped(s1) THEN s1
                ELSE DestroyMembers([s1 EXCEPT !.wp[w] = NoHandle, !.within.wp[w] = Null], o))
        ELSE s

\* ControlBlockWithPointer::deleteObjectPtr: the deleter on the stored pointer
\* (the default deleter destroys the object and releases its storage; on nullptr
\* it does nothing), then the stored pointer is nulled.  Deleting an object that
\* was deleted before is undefined, and so is the store when the destructor of
\* the object has freed the block.
deleteObjectPtrWithPointer(s, k) ==
    LET p  == s.cb[k].object_ptr
        s1 == [s EXCEPT !.cb[k].destroys = Seen(@)]
    IN  IF p = Null THEN s1
        ELSE IF s.obj[p].dtors > 0 THEN UB(s)
        ELSE Bind(DestroyMembers([s1 EXCEPT !.obj[p].dtors = Seen(@)], p), LAMBDA s2 :
                IF Stopped(s2) THEN s2
                ELSE IF ~Live(s2, k) THEN UB(s2)
                ELSE [s2 EXCEPT !.obj[p].deallocs = Seen(@), !.cb[k].object_ptr = Null])

\* ControlBlockWithPointer::deleteObjectPtr when the deleter throws: the
\* exception leaves deleteObjectPtr, the stored pointer is not nulled.
deleteObjectPtrThrowing(s, k) ==
    Throw([s EXCEPT !.cb[k].destroys = Seen(@)])

\* ControlBlockWithValue::deleteObjectPtr: the destructor of the object in
\* object_storage, and nothing else: the storage is not released.
deleteObjectPtrWithValue(s, k) ==
    DestroyMembers([s EXCEPT !.cb[k].destroys = Seen(@), !.obj[k].dtors = Seen(@)], k)

\* The virtual call control_block_ptr->deleteObjectPtr().
deleteObjectPtr(s, k) ==
    IF s.cb[k].kind = "pointer" THEN deleteObjectPtrWithPointer(s, k)
    ELSE IF s.cb[k].kind = "throwing" THEN deleteObjectPtrThrowing(s, k)
    ELSE deleteObjectPtrWithValue(s, k)

\* delete control_block_ptr: the block's destructor is empty; the block, with
\* its embedded storage if it has one, is released.
DeleteControlBlock(s, k) ==
    [s EXCEPT !.cb[k].st = "freed"]

\* The lowest block not allocated so far: what the next new-expression returns.
Fresh(s) == CHOOSE k \in CB : s.cb[k].st = "none" /\ \A j \in 1 .. (k - 1) : s.cb[j].st # "none"
CanAllocate(s) == \E k \in CB : s.cb[k].st = "none"

(***************************************************************************)
(* shared_ptr                                                              *)
(***************************************************************************)

\* shared_ptr::~shared_ptr, the body as written.  The destructor is noexcept: an
\* exception that leaves deleteObjectPtr ends the program.  When the destructor
\* of the object has destroyed this handle or freed the block, the statements
\* after deleteObjectPtr read what no longer exists.
SharedDtor(s, h) ==
    LET k == s.sp[h].control_block_ptr IN
    IF k = Null THEN s
    ELSE IF ~Live(s, k) THEN UB(s)
    ELSE
        Bind(remove_shared(s, k), LAMBDA s1 :
        Bind(IF s1.cb[k].shared_ptr_cnt = 0 THEN deleteObjectPtr(s1, k) ELSE s1, LAMBDA s2 :
            IF s2.ub THEN s2
            ELSE IF s2.exc # "none" THEN Terminate(s2)
            ELSE IF ~s2.sp[h].alive THEN UB(s2)
            ELSE IF ~Live(s2, k) THEN UB(s2)
            ELSE [(IF s2.cb[k].weak_ptr_cnt = 0 THEN DeleteControlBlock(s2, k) ELSE s2)
                    EXCEPT !.sp[h].control_block_ptr = Null, !.sp[h].object_ptr = Null,
                           !.sp[h].owns = FALSE]))

\* The fields of a handle after a destructor call on an object that is used
\* afterwards: the two stores that null the fields are the last stores to an
\* object whose lifetime ends, and a build either keeps them or drops them.
AfterLifetime(before, after, dropped) ==
    IF dropped THEN [before EXCEPT !.owns = after.owns] ELSE after

\* this->~shared_ptr() called on an object that is used afterwards.
ExplicitSharedDtor(s, h, dropped) ==
    Bind(SharedDtor(s, h), LAMBDA s1 :
        IF Stopped(s1) THEN s1
        ELSE [s1 EXCEPT !.sp[h] = AfterLifetime(s.sp[h], s1.sp[h], dropped)])

\* shared_ptr() and shared_ptr(nullptr_t)
SharedDefault(s, h) == [s EXCEPT !.sp[h] = EmptyHandle]

\* shared_ptr(V* ptr_, Deleter deleter)
SharedFromPointer(s, h) ==
    LET k == Fresh(s) IN
    [NewControlBlockWithPointer(s, k) EXCEPT
        !.sp[h] = Handle(k, k)]

\* shared_ptr(V* ptr_, Deleter deleter) with a deleter that throws when called.
SharedFromPointerThrowingDeleter(s, h) ==
    LET k == Fresh(s) IN
    [NewControlBlockWithThrowingDeleter(s, k) EXCEPT
        !.sp[h] = Handle(k, k)]

\* shared_ptr(V* ptr_, Deleter deleter) when the allocation of the block fails:
\* the new-expression in the member initialiser throws, no handle is constructed.
SharedFromPointerBadAlloc(s) == Throw(s)

\* make_shared when the allocation of the block fails: the new-expression throws
\* before anything else is done.
make_sharedBadAlloc(s) == Throw(s)

\* make_shared when the constructor of T throws.
make_sharedCtorThrows(s) == NewControlBlockWithValueThrows(s, Fresh(s))

\* make_shared
make_shared(s, h) ==
    LET k == Fresh(s) IN
    [NewControlBlockWithValue(s, k) EXCEPT
        !.sp[h] = Handle(k, k)]

\* The body shared by the three copying constructors: attach to the block.
AttachShared(s, k) ==
    IF k = Null THEN s
    ELSE IF ~Live(s, k) THEN UB(s)
    ELSE add_shared(s, k)

\* shared_ptr(const shared_ptr<V>& other, T* object_ptr): the aliasing constructor.
SharedAlias(s, h, other, p) ==
    LET k == s.sp[other].control_block_ptr IN
    AttachShared([s EXCEPT !.sp[h] = Handle(p, k)], k)

\* shared_ptr(const shared_ptr& other) and shared_ptr(const shared_ptr<V>& other)
SharedCopy(s, h, other) ==
    LET k == s.sp[other].control_block_ptr IN
    AttachShared([s EXCEPT !.sp[h] = Handle(s.sp[other].object_ptr, k)], k)

\* shared_ptr(shared_ptr&& other)
SharedMove(s, h, other) ==
    [s EXCEPT !.sp[h] = s.sp[other],
              !.sp[other].object_ptr = Null,
              !.sp[other].control_block_ptr = Null,
              !.sp[other].owns = FALSE]

\* shared_ptr::operator=(const shared_ptr& other).  The operator is noexcept; when
\* the destructor call has destroyed the object other is a member of, the
\* statements after it read a handle that no longer exists.
SharedCopyAssign(s, h, other, dropped) ==
    IF h = other THEN s
    ELSE
        Bind(ExplicitSharedDtor(s, h, dropped), LAMBDA s1 :
            IF Stopped(s1) THEN s1
            ELSE IF ~s1.sp[other].alive THEN UB(s1)
            ELSE
                LET k == s1.sp[other].control_block_ptr IN
                AttachShared([s1 EXCEPT !.sp[h] = Handle(s1.sp[other].object_ptr, k)], k))

\* operator=(shared_ptr&&) without the identity check of line 135.
SharedMoveAssignNoSelfCheck(s, h, other, dropped) ==
    Bind(ExplicitSharedDtor(s, h, dropped), LAMBDA s1 :
        IF Stopped(s1) THEN s1
        ELSE IF ~s1.sp[other].alive THEN UB(s1)
        ELSE [s1 EXCEPT !.sp[h] = s1.sp[other], !.sp[other] = s1.sp[h]])

\* shared_ptr::operator=(shared_ptr&& other)
SharedMoveAssign(s, h, other, dropped) ==
    IF h = other THEN s
    ELSE
        Bind(ExplicitSharedDtor(s, h, dropped), LAMBDA s1 :
            IF Stopped(s1) THEN s1
            ELSE IF ~s1.sp[other].alive THEN UB(s1)
            ELSE [s1 EXCEPT !.sp[h] = s1.sp[other], !.sp[other] = s1.sp[h]])

\* shared_ptr::reset()
SharedReset(s, h, dropped) == ExplicitSharedDtor(s, h, dropped)

\* shared_ptr::reset(V* new_ptr, Deleter deleter)
SharedResetPointer(s, h, dropped) ==
    Bind(SharedReset(s, h, dropped), LAMBDA s1 :
        IF Stopped(s1) THEN s1
        ELSE LET k == Fresh(s1) IN
             [NewControlBlockWithPointer(s1, k) EXCEPT !.sp[h] = Handle(k, k)])

\* shared_ptr::reset(V* new_ptr, Deleter deleter) when the allocation of the block
\* fails: reset(), the store of new_ptr, and the new-expression throws.
SharedResetPointerBadAlloc(s, h, new_ptr, dropped) ==
    Bind(SharedReset(s, h, dropped), LAMBDA s1 :
        IF Stopped(s1) THEN s1
        ELSE Throw([s1 EXCEPT !.sp[h].object_ptr = new_ptr]))

\* The handle variable goes out of scope: the destructor, and the variable is gone.
SharedEndOfScope(s, h) ==
    Bind(SharedDtor(s, h), LAMBDA s1 :
        IF Stopped(s1) THEN s1 ELSE [s1 EXCEPT !.sp[h] = NoHandle])

\* The handle variable h is moved into a member of object o and not used again:
\* the member is constructed from std::move(h), the handle is now the member.
SharedIntoObject(s, h, o) == [s EXCEPT !.within.sp[h] = o]

\* shared_ptr::get
get(s, h) == s.sp[h].object_ptr

\* shared_ptr::operator bool
Bool(s, h) == s.sp[h].object_ptr # Null

\* shared_ptr::use_count.  Reading a freed block is undefined: no value.
use_count(s, h) ==
    LET k == s.sp[h].control_block_ptr IN
    IF k = Null THEN 0 ELSE s.cb[k].shared_ptr_cnt

\* use_count() has a defined value.
UseCountDefined(s, h) ==
    s.sp[h].control_block_ptr = Null \/ Live(s, s.sp[h].control_block_ptr)

(***************************************************************************)
(* weak_ptr                                                                *)
(***************************************************************************)

\* weak_ptr::~weak_ptr, the body as written.
WeakDtor(s, w) ==
    LET k == s.wp[w].control_block_ptr IN
    IF k = Null THEN s
    ELSE IF ~Live(s, k) THEN UB(s)
    ELSE
        Bind(remove_weak(s, k), LAMBDA s1 :
            [(IF s1.cb[k].weak_ptr_cnt = 0 THEN DeleteControlBlock(s1, k) ELSE s1)
                EXCEPT !.wp[w].control_block_ptr = Null, !.wp[w].object_ptr = Null,
                       !.wp[w].owns = FALSE])

\* this->~weak_ptr() called on an object that is used afterwards.
ExplicitWeakDtor(s, w, dropped) ==
    Bind(WeakDtor(s, w), LAMBDA s1 :
        IF s1.ub THEN s1
        ELSE [s1 EXCEPT !.wp[w] = AfterLifetime(s.wp[w], s1.wp[w], dropped)])

\* The body shared by the weak constructors and copy assignments: add_weak.
AttachWeak(s, k) ==
    IF k = Null THEN s
    ELSE IF ~Live(s, k) THEN UB(s)
    ELSE add_weak(s, k)

\* weak_ptr()
WeakDefault(s, w) == [s EXCEPT !.wp[w] = EmptyHandle]

\* weak_ptr(const shared_ptr<T>& other)
WeakFromShared(s, w, other) ==
    LET k == s.sp[other].control_block_ptr IN
    AttachWeak([s EXCEPT !.wp[w] = Handle(get(s, other), k)], k)

\* weak_ptr(const weak_ptr<T>& other)
WeakCopy(s, w, other) ==
    LET k == s.wp[other].control_block_ptr IN
    AttachWeak([s EXCEPT !.wp[w] = Handle(s.wp[other].object_ptr, k)], k)

\* weak_ptr::operator=(const weak_ptr<T>& other)
WeakCopyAssign(s, w, other, dropped) ==
    IF s.wp[w].control_block_ptr = s.wp[other].control_block_ptr THEN s
    ELSE
        Bind(ExplicitWeakDtor(s, w, dropped), LAMBDA s1 :
            IF s1.ub THEN s1
            ELSE
                LET k == s1.wp[other].control_block_ptr IN
                AttachWeak([s1 EXCEPT !.wp[w] = Handle(s1.wp[other].object_ptr, k)], k))

\* weak_ptr::operator=(weak_ptr<T>&& other)
WeakMoveAssign(s, w, other, dropped) ==
    IF s.wp[w].control_block_ptr = s.wp[other].control_block_ptr THEN s
    ELSE
        Bind(ExplicitWeakDtor(s, w, dropped), LAMBDA s1 :
            IF s1.ub THEN s1
            ELSE [s1 EXCEPT !.wp[w] = s1.wp[other], !.wp[other] = s1.wp[w]])

\* weak_ptr::operator=(const shared_ptr<T>& other)
WeakAssignShared(s, w, other, dropped) ==
    IF s.wp[w].control_block_ptr = s.sp[other].control_block_ptr THEN s
    ELSE
        Bind(ExplicitWeakDtor(s, w, dropped), LAMBDA s1 :
            IF s1.ub THEN s1
            ELSE
                LET k == s1.sp[other].control_block_ptr IN
                AttachWeak([s1 EXCEPT !.wp[w] = Handle(s1.sp[other].object_ptr, k)], k))

\* weak_ptr::lock, the returned handle initialising shared_ptr variable h.
lock(s, h, w) ==
    LET k == s.wp[w].control_block_ptr IN
    IF k = Null THEN [s EXCEPT !.sp[h] = EmptyHandle]
    ELSE IF ~Live(s, k) THEN UB(s)
    ELSE IF s.cb[k].shared_ptr_cnt = 0 THEN [s EXCEPT !.sp[h] = EmptyHandle]
    ELSE add_shared([s EXCEPT !.sp[h] = Handle(s.wp[w].object_ptr, k)], k)

\* The weak handle variable goes out of scope.
WeakEndOfScope(s, w) ==
    Bind(WeakDtor(s, w), LAMBDA s1 :
        IF s1.ub THEN s1 ELSE [s1 EXCEPT !.wp[w] = NoHandle])

\* The weak handle variable w becomes a member of object o: the member is
\* constructed from w, w is not used again.
WeakIntoObject(s, w, o) == [s EXCEPT !.within.wp[w] = o]

(***************************************************************************)
(* The client program: one action per operation                            *)
(***************************************************************************)

SharedConstructors ==
    {"shared_default", "shared_from_pointer", "make_shared", "shared_alias",
     "shared_copy", "shared_move", "lock", "shared_from_pointer_throwing_deleter"}
WeakConstructors == {"weak_default", "weak_from_shared", "weak_copy"}

Init ==
    /\ sp = [h \in SH |-> NoHandle]
    /\ wp = [w \in WH |-> NoHandle]
    /\ cb = [k \in CB |-> NoBlock]
    /\ obj = [o \in Obj |-> IF o = AliasTarget THEN [created |-> TRUE, dtors |-> 0, deallocs |-> 0]
                              ELSE NoObject]
    /\ ub = FALSE
    /\ dse \in BOOLEAN
    /\ nsp = 0
    /\ nwp = 0
    /\ within = [sp |-> [h \in SH |-> Null], wp |-> [w \in WH |-> Null]]
    /\ exc = "none"
    /\ last = [op |-> "init", h |-> 0, other |-> 0, p |-> 0]

\* The step to the state s that transformer t computes, executing operation op
\* on handle h with arguments other (a handle) and p (a pointer).
\* When the operation executes undefined behaviour nothing is known of its
\* outcome: the state is left as it was, marked ub.
Step(t, op, h, other, p) ==
    \E s \in {t} :
        /\ sp' = IF s.ub THEN sp ELSE s.sp
        /\ wp' = IF s.ub THEN wp ELSE s.wp
        /\ cb' = IF s.ub THEN cb ELSE s.cb
        /\ obj' = IF s.ub THEN obj ELSE s.obj
        /\ ub' = s.ub
        /\ within' = IF s.ub THEN within ELSE s.within
        /\ exc' = s.exc
        /\ dse' = dse
        /\ nsp' = IF op \in SharedConstructors THEN nsp + 1 ELSE nsp
        /\ nwp' = IF op \in WeakConstructors THEN nwp + 1 ELSE nwp
        /\ last' = [op |-> op, h |-> h, other |-> other, p |-> p]

\* The program is running: no undefined behaviour so far, not terminated.
Running == ~ub /\ exc # "terminate"

\* The client declares its handle variables in order; h is the next one.
Dead(h) == h = nsp + 1 /\ nsp + nwp < MaxHandles
Alive(h) == sp[h].alive
WDead(w) == w = nwp + 1 /\ nsp + nwp < MaxHandles
WAlive(w) == wp[w].alive

DoSharedDefault ==
    \E h \in SH : Running /\ Dead(h) /\ Step(SharedDefault(Cur, h), "shared_default", h, 0, 0)

DoSharedFromPointer ==
    \E h \in SH : Running /\ Dead(h) /\ CanAllocate(Cur)
        /\ Step(SharedFromPointer(Cur, h), "shared_from_pointer", h, 0, 0)

DoMakeShared ==
    \E h \in SH : Running /\ Dead(h) /\ CanAllocate(Cur)
        /\ Step(make_shared(Cur, h), "make_shared", h, 0, 0)

DoSharedAlias ==
    \E h \in SH, other \in SH, p \in {Null, AliasTarget} :
        Running /\ Dead(h) /\ Alive(other)
        /\ Step(SharedAlias(Cur, h, other, p), "shared_alias", h, other, p)

DoSharedCopy ==
    \E h \in SH, other \in SH : Running /\ Dead(h) /\ Alive(other)
        /\ Step(SharedCopy(Cur, h, other), "shared_copy", h, other, 0)

DoSharedMove ==
    \E h \in SH, other \in SH : Running /\ Dead(h) /\ Alive(other)
        /\ Step(SharedMove(Cur, h, other), "shared_move", h, other, 0)

DoSharedCopyAssign ==
    \E h \in SH, other \in SH, dropped \in {dse} : Running /\ Alive(h) /\ Alive(other)
        /\ Step(SharedCopyAssign(Cur, h, other, dropped), "shared_copy_assign", h, other, 0)

DoSharedMoveAssign ==
    \E h \in SH, other \in SH, dropped \in {dse} : Running /\ Alive(h) /\ Alive(other)
        /\ Step(SharedMoveAssign(Cur, h, other, dropped), "shared_move_assign", h, other, 0)

DoSharedReset ==
    \E h \in SH, dropped \in {dse} : Running /\ Alive(h)
        /\ Step(SharedReset(Cur, h, dropped), "shared_reset", h, 0, 0)

DoSharedResetPointer ==
    \E h \in SH, dropped \in {dse} : Running /\ Alive(h) /\ CanAllocate(Cur)
        /\ Step(SharedResetPointer(Cur, h, dropped), "shared_reset_pointer", h, 0, 0)

DoSharedEndOfScope ==
    \E h \in SH : Running /\ Alive(h) /\ within.sp[h] = Null
        /\ Step(SharedEndOfScope(Cur, h), "shared_end_of_scope", h, 0, 0)

DoWeakDefault ==
    \E w \in WH : Running /\ WDead(w) /\ Step(WeakDefault(Cur, w), "weak_default", w, 0, 0)

DoWeakFromShared ==
    \E w \in WH, other \in SH : Running /\ WDead(w) /\ Alive(other)
        /\ Step(WeakFromShared(Cur, w, other), "weak_from_shared", w, other, 0)

DoWeakCopy ==
    \E w \in WH, other \in WH : Running /\ WDead(w) /\ WAlive(other)
        /\ Step(WeakCopy(Cur, w, other), "weak_copy", w, other, 0)

DoWeakCopyAssign ==
    \E w \in WH, other \in WH, dropped \in {dse} : Running /\ WAlive(w) /\ WAlive(other)
        /\ Step(WeakCopyAssign(Cur, w, other, dropped), "weak_copy_assign", w, other, 0)

DoWeakMoveAssign ==
    \E w \in WH, other \in WH, dropped \in {dse} : Running /\ WAlive(w) /\ WAlive(other)
        /\ Step(WeakMoveAssign(Cur, w, other, dropped), "weak_move_assign", w, other, 0)

DoWeakAssignShared ==
    \E w \in WH, other \in SH, dropped \in {dse} : Running /\ WAlive(w) /\ Alive(other)
        /\ Step(WeakAssignShared(Cur, w, other, dropped), "weak_assign_shared", w, other, 0)

DoLock ==
    \E h \in SH, w \in WH : Running /\ Dead(h) /\ WAlive(w)
        /\ Step(lock(Cur, h, w), "lock", h, w, 0)

DoWeakEndOfScope ==
    \E w \in WH : Running /\ WAlive(w) /\ within.wp[w] = Null
        /\ Step(WeakEndOfScope(Cur, w), "weak_end_of_scope", w, 0, 0)

Next ==
    \/ DoSharedDefault
    \/ DoSharedFromPointer
    \/ DoMakeShared
    \/ DoSharedAlias
    \/ DoSharedCopy
    \/ DoSharedMove
    \/ DoSharedCopyAssign
    \/ DoSharedMoveAssign
    \/ DoSharedReset
    \/ DoSharedResetPointer
    \/ DoSharedEndOfScope
    \/ DoWeakDefault
    \/ DoWeakFromShared
    \/ DoWeakCopy
    \/ DoWeakCopyAssign
    \/ DoWeakMoveAssign
    \/ DoWeakAssignShared
    \/ DoLock
    \/ DoWeakEndOfScope

Spec == Init /\ [][Next]_vars

\* The start of the program in the build that keeps every store of the source.
InitAsWritten == Init /\ dse = FALSE

(***************************************************************************)
(* The client whose allocations, constructors and deleters may fail        *)
(***************************************************************************)

DoSharedFromPointerThrowingDeleter ==
    \E h \in SH : Running /\ Dead(h) /\ CanAllocate(Cur)
        /\ Step(SharedFromPointerThrowingDeleter(Cur, h),
                "shared_from_pointer_throwing_deleter", h, 0, 0)

DoSharedFromPointerBadAlloc ==
    \E h \in SH : Running /\ Dead(h)
        /\ Step(SharedFromPointerBadAlloc(Cur), "shared_from_pointer_bad_alloc", h, 0, 0)

DoMakeSharedBadAlloc ==
    \E h \in SH : Running /\ Dead(h)
        /\ Step(make_sharedBadAlloc(Cur), "make_shared_bad_alloc", h, 0, 0)

DoMakeSharedCtorThrows ==
    \E h \in SH : Running /\ Dead(h) /\ CanAllocate(Cur)
        /\ Step(make_sharedCtorThrows(Cur), "make_shared_ctor_throws", h, 0, 0)

DoSharedResetPointerBadAlloc ==
    \E h \in SH, dropped \in {dse} : Running /\ Alive(h)
        /\ Step(SharedResetPointerBadAlloc(Cur, h, AliasTarget, dropped),
                "shared_reset_pointer_bad_alloc", h, 0, AliasTarget)

NextFail ==
    \/ Next
    \/ DoSharedFromPointerThrowingDeleter
    \/ DoSharedFromPointerBadAlloc
    \/ DoMakeSharedBadAlloc
    \/ DoMakeSharedCtorThrows
    \/ DoSharedResetPointerBadAlloc

\* The failures are studied in the build that keeps every store.
SpecFail == InitAsWritten /\ [][NextFail]_vars

(***************************************************************************)
(* The client whose objects hold handles                                   *)
(***************************************************************************)

\* Object o exists: constructed, not destroyed, its storage not released.
ObjectAlive(o) ==
    /\ obj[o].created /\ obj[o].dtors = 0 /\ obj[o].deallocs = 0
    /\ cb[o].kind = "value" => cb[o].st = "live"

DoSharedIntoObject ==
    \E h \in SH, o \in CB : Running /\ Alive(h) /\ within.sp[h] = Null /\ ObjectAlive(o)
        /\ Step(SharedIntoObject(Cur, h, o), "shared_into_object", h, o, 0)

DoWeakIntoObject ==
    \E w \in WH, o \in CB : Running /\ WAlive(w) /\ within.wp[w] = Null /\ ObjectAlive(o)
        /\ Step(WeakIntoObject(Cur, w, o), "weak_into_object", w, o, 0)

\* The client that links objects: it creates objects, copies, assigns, resets
\* and drops handles, takes weak handles and locks them, and stores handles in
\* the objects.
NextEmbedded ==
    \/ DoSharedFromPointer
    \/ DoMakeShared
    \/ DoSharedCopy
    \/ DoSharedCopyAssign
    \/ DoSharedMoveAssign
    \/ DoSharedReset
    \/ DoSharedEndOfScope
    \/ DoWeakFromShared
    \/ DoWeakEndOfScope
    \/ DoLock
    \/ DoSharedIntoObject
    \/ DoWeakIntoObject

\* Member handles are studied in the build that keeps every store.
SpecEmbedded == InitAsWritten /\ [][NextEmbedded]_vars

(***************************************************************************)
(* Vocabulary of the properties                                            *)
(***************************************************************************)

\* The live shared_ptr variables attached to block k: those that took a share
\* of it and have not been released (destroyed, reset, assigned to, moved from).
SharedAttached(k) ==
    {h \in SH : sp[h].alive /\ sp[h].owns /\ sp[h].control_block_ptr = k}

\* The live weak_ptr variables attached to block k.
WeakAttached(k) ==
    {w \in WH : wp[w].alive /\ wp[w].owns /\ wp[w].control_block_ptr = k}

\* Block k has been allocated (and may have been freed since).
Allocated(k) == cb[k].st # "none"

\* The managed object of block k has been destroyed.
Destroyed(k) == obj[k].dtors > 0

\* The last step executed operation op.
Did(op) == last.op = op

(***************************************************************************)
(* Properties                                                              *)
(***************************************************************************)

\* C1: use_count() of every non-empty shared handle is the number of live
\* shared handles attached to the same control block, an empty handle reports
\* 0, and the shared count of a control block is 0 exactly when no live shared
\* handle is attached to it.
C1_UseCountIsNumberOfOwners ==
    /\ \A h \in SH : sp[h].alive =>
        IF sp[h].control_block_ptr = Null THEN use_count(Cur, h) = 0
        ELSE /\ UseCountDefined(Cur, h)
             /\ use_count(Cur, h) = Cardinality(SharedAttached(sp[h].control_block_ptr))
    /\ \A k \in CB : cb[k].st = "live" =>
        (cb[k].shared_ptr_cnt = 0 <=> SharedAttached(k) = {})

\* C2: the managed object of a control block is destroyed exactly once, by the
\* release of the last shared handle: it is alive while a shared handle is
\* attached, destroyed once none is, whatever weak handles remain.
C2_ObjectDestroyedOnceByLastOwner ==
    \A k \in CB : Allocated(k) =>
        /\ obj[k].dtors <= 1
        /\ cb[k].destroys <= 1
        /\ (Destroyed(k) <=> SharedAttached(k) = {})

\* C3: a control block is freed exactly once, by the release of the last shared
\* or weak handle attached to it, and not before its object has been destroyed.
C3_BlockFreedOnceByLastHandle ==
    \A k \in CB : Allocated(k) =>
        /\ (cb[k].st = "freed" <=> SharedAttached(k) = {} /\ WeakAttached(k) = {})
        /\ (cb[k].st = "freed" => Destroyed(k))

\* C5: the weak count of a live control block is the number of live shared
\* handles plus the number of live weak handles attached to it, so it is at
\* least the shared count, and no counter wraps below 0.
C5_WeakCountIsNumberOfHandles ==
    \A k \in CB : cb[k].st = "live" =>
        /\ cb[k].weak_ptr_cnt = Cardinality(SharedAttached(k)) + Cardinality(WeakAttached(k))
        /\ cb[k].weak_ptr_cnt >= cb[k].shared_ptr_cnt
        /\ cb[k].shared_ptr_cnt <= NumShared

\* The program state after the step.
CurNext == [sp |-> sp', wp |-> wp', cb |-> cb', obj |-> obj', ub |-> ub',
            within |-> within', exc |-> "none"]

\* C4: lock() returns an empty shared handle and changes no counter when the
\* weak handle is empty or the shared count of its block is 0; otherwise it
\* returns a handle on the same block, whose shared count is one more than
\* before the call.  (The weak handle is empty or attached.)
C4_LockStep ==
    (last'.op = "lock"
        /\ (wp[last'.other].control_block_ptr = Null \/ wp[last'.other].owns)) =>
        LET h == last'.h
            w == last'.other
            k == wp[w].control_block_ptr
        IN  IF k = Null \/ cb[k].shared_ptr_cnt = 0
            THEN ~ub' /\ sp'[h] = EmptyHandle /\ cb' = cb
            ELSE /\ ~ub'
                 /\ sp'[h].control_block_ptr = k
                 /\ cb'[k].shared_ptr_cnt = cb[k].shared_ptr_cnt + 1
                 /\ \A x \in SharedAttached(k) : use_count(CurNext, x) = use_count(Cur, x) + 1

\* C4: every lock() step returns an empty handle when the object is destroyed
\* or the handle is empty, and an owning handle (shared count + 1) otherwise.
C4_LockReturnsOwnerOrEmpty == [][C4_LockStep]_vars

\* C6: copy self-assignment and move self-assignment of a shared handle change
\* nothing: not the handle, not a counter, not the managed object.
C6_SelfAssignStep ==
    (last'.op \in {"shared_copy_assign", "shared_move_assign"} /\ last'.h = last'.other)
        => UNCHANGED <<sp, wp, cb, obj, ub>>

\* C6: every self-assignment step (copy or move) of a shared handle leaves the
\* handle, its use_count(), the control blocks and the objects unchanged.
C6_SelfAssignmentIsNoOp == [][C6_SelfAssignStep]_vars

\* A handle that is the only owner of a live object has been move-assigned to itself.
C6_Witness ==
    /\ Did("shared_move_assign")
    /\ last.h = last.other
    /\ sp[last.h].owns
    /\ Live(Cur, sp[last.h].control_block_ptr)
    /\ use_count(Cur, last.h) = 1
    /\ ~Destroyed(sp[last.h].control_block_ptr)

\* C7: an aliasing handle built from a non-empty handle shares its block, counts
\* as one more owner, and get() returns the pointer given; while an aliasing
\* handle is attached, the block's managed object is alive, and the pointer's
\* own target is never destroyed.
C7_AliasStep ==
    (last'.op = "shared_alias" /\ sp[last'.other].owns) =>
        LET h == last'.h
            k == sp[last'.other].control_block_ptr
        IN  /\ ~ub'
            /\ sp'[h].control_block_ptr = k
            /\ get(CurNext, h) = last'.p
            /\ use_count(CurNext, h) = use_count(Cur, last'.other) + 1

C7_AliasKeepsObject ==
    /\ obj[AliasTarget].dtors = 0
    /\ \A h \in SH : (sp[h].alive /\ sp[h].owns /\ sp[h].object_ptr = AliasTarget) =>
            /\ Live(Cur, sp[h].control_block_ptr)
            /\ ~Destroyed(sp[h].control_block_ptr)

\* C7: every aliasing construction attaches to the source's block with the
\* given pointer, and the object stays alive while the aliasing handle owns.
C7_AliasingSharesOwnership == [][C7_AliasStep]_vars /\ []C7_AliasKeepsObject

\* C8: copy construction from a handle with use_count() n >= 1 makes source and
\* copy report n + 1 on one block; destroying either leaves the other with
\* use_count() n and the object alive; the copy of an empty handle is empty and
\* no counter changes.  (The source is empty or attached; use_count() of a
\* handle whose block was freed reads freed memory, and may return any n.)
C8_CopyStep ==
    last'.op = "shared_copy" =>
        LET h == last'.h
            other == last'.other
            k == sp[other].control_block_ptr
            n == use_count(Cur, other)
            AfterEnd(x) == SharedEndOfScope(CurNext, x)
        IN  IF k = Null
            THEN ~ub' /\ sp'[h].control_block_ptr = Null /\ cb' = cb
            ELSE (sp[other].owns /\ (Live(Cur, k) => n >= 1)) =>
                /\ ~ub'
                /\ sp'[h].control_block_ptr = k
                /\ use_count(CurNext, h) = n + 1
                /\ use_count(CurNext, other) = n + 1
                /\ \A x \in {h, other} : \A y \in {h, other} \ {x} :
                    /\ ~AfterEnd(x).ub
                    /\ AfterEnd(x).cb[k].st = "live"
                    /\ use_count(AfterEnd(x), y) = n
                    /\ AfterEnd(x).obj[k].dtors = 0

\* C8: every copy construction from an owning handle with use_count() n leaves
\* source and copy with use_count() n + 1 and the same pointer, object alive.
C8_CopySharesOwnership == [][C8_CopyStep]_vars

\* C9: a move (construction, or assignment from a distinct source) gives the
\* target the source's object pointer and control block and leaves the source
\* empty; no counter changes, except that a move assignment first releases the
\* target's previous share as the destructor would.
C9_MoveStep ==
    /\ last'.op = "shared_move" =>
        /\ sp'[last'.h].object_ptr = sp[last'.other].object_ptr
        /\ sp'[last'.h].control_block_ptr = sp[last'.other].control_block_ptr
        /\ sp'[last'.other].object_ptr = Null
        /\ sp'[last'.other].control_block_ptr = Null
        /\ cb' = cb /\ obj' = obj /\ ~ub'
    /\ (last'.op = "shared_move_assign" /\ last'.h # last'.other
            /\ ~SharedDtor(Cur, last'.h).ub) =>
        /\ sp'[last'.h].object_ptr = sp[last'.other].object_ptr
        /\ sp'[last'.h].control_block_ptr = sp[last'.other].control_block_ptr
        /\ sp'[last'.other].object_ptr = Null
        /\ sp'[last'.other].control_block_ptr = Null
        /\ cb' = SharedDtor(Cur, last'.h).cb
        /\ obj' = SharedDtor(Cur, last'.h).obj
        /\ ~ub'

\* C9: every move construction or move assignment from a distinct source gives
\* the target the source's pointer and use_count() and leaves the source empty.
C9_MoveTransfersOwnership == [][C9_MoveStep]_vars

\* C10: the handle returned by make_shared has use_count() 1 on a block that
\* holds the object; from then on the object's destructor runs exactly once,
\* when no shared handle is attached any more, the one allocation is released
\* when no handle is attached any more, and the object's storage is never
\* released on its own.
C10_MakeSharedStep ==
    last'.op = "make_shared" =>
        /\ use_count(CurNext, last'.h) = 1
        /\ cb'[sp'[last'.h].control_block_ptr].kind = "value"
        /\ sp'[last'.h].object_ptr = sp'[last'.h].control_block_ptr

C10_EmbeddedObject ==
    \A k \in CB : cb[k].kind = "value" =>
        /\ obj[k].dtors <= 1
        /\ obj[k].deallocs = 0
        /\ (Destroyed(k) <=> SharedAttached(k) = {})
        /\ (cb[k].st = "freed" <=> SharedAttached(k) = {} /\ WeakAttached(k) = {})

\* C10: every make_shared step returns a handle with use_count() 1 on one
\* block holding the object, whose destructor runs once, when the last owner
\* releases, the storage going away only with the block.
C10_MakeSharedSingleAllocation == [][C10_MakeSharedStep]_vars /\ []C10_EmbeddedObject

\* C11: reset() on an attached or empty shared handle changes the counters, the
\* blocks and the objects exactly as the destructor of the handle would, and
\* leaves the handle empty (both fields null), so that a second reset() or the
\* destructor of the handle finds nothing to release.
C11_ResetStep ==
    (last'.op = "shared_reset"
        /\ (sp[last'.h].control_block_ptr = Null \/ sp[last'.h].owns)
        /\ ~SharedDtor(Cur, last'.h).ub) =>
        LET h == last'.h IN
        /\ ~ub'
        /\ cb' = SharedDtor(Cur, h).cb
        /\ obj' = SharedDtor(Cur, h).obj
        /\ sp'[h].control_block_ptr = Null
        /\ sp'[h].object_ptr = Null
        /\ SharedReset(CurNext, h, dse).cb = cb'
        /\ SharedReset(CurNext, h, dse).obj = obj'
        /\ SharedEndOfScope(CurNext, h).cb = cb'
        /\ SharedEndOfScope(CurNext, h).obj = obj'

\* C11: every reset() step has the effect of destroying the handle and leaves
\* it empty; a repeated reset() or the later destructor changes nothing.
C11_ResetIsDestruction == [][C11_ResetStep]_vars

\* The operations that assign to a weak handle.
WeakAssignments == {"weak_copy_assign", "weak_move_assign", "weak_assign_shared"}

\* C12: assigning a handle (attached or empty) to a weak handle w (attached or
\* empty) on a different control block takes one off the weak count of w's old
\* block, which is freed exactly when that count reaches 0, and leaves w
\* attached to the source's block, whose weak count has one more for w (copy
\* variants) or counts w in place of the source (move variant); on the same
\* block no counter changes; no shared count ever changes.
C12_WeakAssignStep ==
    last'.op \in WeakAssignments =>
        LET w == last'.h
            src == IF last'.op = "weak_assign_shared" THEN sp[last'.other] ELSE wp[last'.other]
            old == wp[w].control_block_ptr
            new == src.control_block_ptr
        IN  ((old = Null \/ wp[w].owns) /\ (new = Null \/ src.owns)) =>
            /\ ~ub'
            /\ \A k \in CB : cb'[k].shared_ptr_cnt = cb[k].shared_ptr_cnt
            /\ IF old = new THEN cb' = cb
               ELSE /\ wp'[w].control_block_ptr = new
                    /\ old # Null =>
                        /\ cb[old].st = "live" /\ cb[old].weak_ptr_cnt >= 1
                        /\ cb'[old].weak_ptr_cnt = cb[old].weak_ptr_cnt - 1
                        /\ cb'[old].st = (IF cb'[old].weak_ptr_cnt = 0 THEN "freed" ELSE "live")
                    /\ new # Null =>
                        /\ wp'[w].owns
                        /\ cb'[new].st = "live"
                        /\ cb'[new].weak_ptr_cnt =
                              IF last'.op = "weak_move_assign" THEN cb[new].weak_ptr_cnt
                              ELSE cb[new].weak_ptr_cnt + 1
                        /\ last'.op = "weak_move_assign" => ~wp'[last'.other].owns

\* C12: every assignment to a weak handle releases its old weak share and
\* attaches it to the source's block, counted once; no shared count changes.
C12_WeakAssignReattaches == [][C12_WeakAssignStep]_vars

\* The operations that release the share of the handle they are applied to.
ReleaseOps ==
    {"shared_end_of_scope", "shared_reset", "shared_reset_pointer",
     "shared_reset_pointer_bad_alloc", "shared_copy_assign", "shared_move_assign"}

\* C13: when an operation releases the last shared handle of a block whose
\* deleter throws, the exception reaches the caller of the operation: the
\* operation ends with the exception thrown, not with the program terminated
\* and not as if nothing had failed.
C13_ThrowingDeleterStep ==
    (last'.op \in ReleaseOps /\ last'.h # last'.other) =>
        LET h == last'.h
            k == sp[h].control_block_ptr
        IN  (sp[h].owns /\ Live(Cur, k) /\ cb[k].kind = "throwing"
                /\ cb[k].shared_ptr_cnt = 1) => exc' = "thrown"

\* C13: every release of the last owner of an object whose deleter throws ends
\* with the exception propagated to the caller.
C13_DeleterFailurePropagates == [][C13_ThrowingDeleterStep]_vars

\* C14: a failed allocation of the control block is signalled to the caller and
\* leaves nothing behind: a failed construction produces no handle and changes
\* no block, and after a failed reset(new_ptr, deleter) the handle has neither
\* a control block nor a cached pointer: get() is null, use_count() is 0.
C14_BadAllocStep ==
    /\ last'.op \in {"shared_from_pointer_bad_alloc", "make_shared_bad_alloc"} =>
        /\ exc' = "thrown"
        /\ sp' = sp /\ nsp' = nsp /\ cb' = cb /\ obj' = obj
    /\ (last'.op = "shared_reset_pointer_bad_alloc"
            /\ ~Stopped(SharedDtor(Cur, last'.h))) =>
        /\ exc' = "thrown"
        /\ sp'[last'.h].control_block_ptr = Null
        /\ get(CurNext, last'.h) = Null
        /\ use_count(CurNext, last'.h) = 0

\* C14: every operation whose allocation fails ends with the exception thrown
\* and no partial state: no handle, or a handle with both fields null.
C14_AllocationFailureLeavesNothing == [][C14_BadAllocStep]_vars

\* C15: when the constructor of the object throws inside make_shared, the
\* exception reaches the caller, no shared handle is produced, and the block
\* allocated for the attempt has been released: no block is live that was not
\* live before, and no object has come to exist.
C15_CtorThrowsStep ==
    last'.op = "make_shared_ctor_throws" =>
        /\ exc' = "thrown"
        /\ sp' = sp /\ nsp' = nsp /\ obj' = obj
        /\ \A k \in CB : cb'[k].st = "live" <=> cb[k].st = "live"
        /\ \E k \in CB : cb[k].st = "none" /\ cb'[k].st = "freed"

\* C15: every make_shared whose constructor throws is rolled back: exception
\* to the caller, no handle, the allocation released.
C15_FailedMakeSharedRolledBack == [][C15_CtorThrowsStep]_vars

\* make_shared has failed in the constructor of the object while another
\* handle owns a live object: the failed attempt's block is released, the
\* other block is untouched.
C15_Witness ==
    /\ Did("make_shared_ctor_throws")
    /\ exc = "thrown"
    /\ \E k \in CB : cb[k].st = "freed" /\ cb[k].kind = "value" /\ ~obj[k].created
    /\ \E h \in SH : sp[h].alive /\ sp[h].owns /\ Live(Cur, sp[h].control_block_ptr)

\* C16: the release of the last shared handle of a block (a client's variable
\* going out of scope or reset) executes no undefined behaviour: it reads,
\* writes and frees no control block that has been freed, also when the
\* destructor of the managed object releases the last weak handle of the block.
C16_LastReleaseStep ==
    last'.op \in {"shared_end_of_scope", "shared_reset"} =>
        LET h == last'.h
            k == sp[h].control_block_ptr
        IN  (within.sp[h] = Null /\ sp[h].owns /\ Live(Cur, k)
                /\ cb[k].shared_ptr_cnt = 1) => ~ub'

\* C16: every release of the last shared handle stays within live blocks.
C16_LastReleaseTouchesNoFreedBlock == [][C16_LastReleaseStep]_vars

\* C17: an assignment h = src, copy or move, where src is a member of the
\* object h is the only owner of and src owns another live object, executes no
\* undefined behaviour and leaves h attached to the block src was attached to,
\* that block live and its object not destroyed.
C17_AssignFromMemberStep ==
    (last'.op \in {"shared_copy_assign", "shared_move_assign"} /\ last'.h # last'.other) =>
        LET h == last'.h
            src == last'.other
            k == sp[h].control_block_ptr
            k2 == sp[src].control_block_ptr
        IN  (sp[h].owns /\ Live(Cur, k) /\ cb[k].shared_ptr_cnt = 1
                /\ within.sp[h] = Null /\ within.sp[src] = k /\ ObjectAlive(k)
                /\ sp[src].owns /\ k2 # k /\ Live(Cur, k2) /\ ~Destroyed(k2)) =>
            /\ ~ub'
            /\ sp'[h].control_block_ptr = k2
            /\ sp'[h].owns
            /\ Live(CurNext, k2)
            /\ obj'[k2].dtors = 0

\* C17: every assignment from a handle stored in the object the target solely
\* owns leaves the target owning the source's object, alive.
C17_AssignFromOwnedMember == [][C17_AssignFromMemberStep]_vars

\* C18: after w = s, with s attached to a block whose object is alive and w
\* attached or empty, lock() on w returns a handle whose get() is s.get(), also
\* when w was attached to the same block before the assignment.
C18_AssignThenLockStep ==
    last'.op = "weak_assign_shared" =>
        LET w == last'.h
            s == last'.other
            k == sp[s].control_block_ptr
            h == CHOOSE x \in SH : x # s
        IN  (sp[s].owns /\ Live(Cur, k) /\ cb[k].shared_ptr_cnt >= 1 /\ ~Destroyed(k)
                /\ (wp[w].control_block_ptr = Null \/ wp[w].owns)) =>
            /\ ~ub'
            /\ ~lock(CurNext, h, w).ub
            /\ get(lock(CurNext, h, w), h) = get(CurNext, s)

\* C18: every assignment w = s leaves w so that lock() returns s.get().
C18_LockReturnsAssignedPointer == [][C18_AssignThenLockStep]_vars

\* C19: a live shared handle whose operator bool is true holds a control block
\* that is live and has use_count() >= 1.
C19_BoolImpliesOwner ==
    \A h \in SH : (sp[h].alive /\ Bool(Cur, h)) =>
        /\ sp[h].control_block_ptr # Null
        /\ UseCountDefined(Cur, h)
        /\ use_count(Cur, h) >= 1


\* The build that keeps every store of the source: the behaviours of Spec in
\* which no dead store is dropped.
SpecAsWritten == InitAsWritten /\ [][Next]_vars

====
